---- MODULE Spec2Model ----
(***************************************************************************)
(* Propositional-logic engine of the Hunt-the-Wumpus project:              *)
(*   logic.py        Expr rewriting (to_cnf), pl_true, tt_entails, PropKB  *)
(*   wumpus_agent.py PropKB_SAT (the KB answered by two minisat probes)    *)
(*                                                                         *)
(* An Expr is a record [op, args]; args is a sequence of Exprs.  The       *)
(* Python constants True/False, where they stand in an expression          *)
(* position, are the records PyTrue/PyFalse.  Results of pl_true and of    *)
(* tt_entails are the strings True, False, None, or the name of the        *)
(* exception raised.                                                       *)
(***************************************************************************)
EXTENDS Integers, Sequences, FiniteSets, TLC

VARIABLES
    s,          \* the sentence handed to to_cnf
    cnf,        \* the value to_cnf returned for s
    vals,       \* pl_true of s and of cnf under one total model
    kb,         \* first argument of tt_entails
    alpha,      \* second argument of tt_entails
    entailed,   \* what tt_entails(kb, alpha) returned
    clauses,    \* PropKB.clauses of the knowledge base under test
    last,       \* the last tell/retract: operation, argument, clauses before it
    track,      \* follows a tell(s) and the retract(s) right after it
    asked,      \* the last ask since the last tell/retract: query and result
    told,       \* the sentences told so far, and whether retract was ever called
    backend,    \* the class of the knowledge base under test
    again,      \* to_cnf applied to cnf
    assoc,      \* a call of associate: its operator, its arguments, its result
    ret,        \* what the call under study returned or raised
    route,      \* a call of plan_route: its arguments and the plan returned
    agent       \* the HybridWumpusAgent: its plan, its time, its last call

vars == <<s, cnf, vals, kb, alpha, entailed, clauses, last, track, asked, told,
          backend, again, assoc, ret, route, agent>>

----------------------------------------------------------------------------
(* Bounds *)

NumProps == 3       \* proposition symbols used to build input sentences
MaxOps == 2         \* connectives in a sentence handed to to_cnf
MaxTTOps == 1       \* connectives in each argument of tt_entails
MaxClauses == 4     \* tell is not called when the store would grow beyond this
MaxArgs == 3        \* arguments of an expression handed to pl_true or associate

----------------------------------------------------------------------------
(* Values *)

True == "True"
False == "False"
None == "None"
ValueError == "ValueError"
AssertionError == "AssertionError"
AttributeError == "AttributeError"
IndexError == "IndexError"
Exceptions == {ValueError, AssertionError, AttributeError, IndexError}

Expr(op, args) == [op |-> op, args |-> args]

PyTrue == Expr("True", <<>>)
PyFalse == Expr("False", <<>>)
IsBool(x) == x \in {PyTrue, PyFalse}

Raise(e) == Expr(e, <<>>)
IsErr(x) == x.op \in Exceptions

PropNames == <<"P", "Q", "R", "A", "B", "C">>
VarNames == {"x", "y"}
Atom(n) == Expr(n, <<>>)
P == Atom("P")
Q == Atom("Q")

Not(p) == Expr("~", <<p>>)
And(p, q) == Expr("&", <<p, q>>)
Or(p, q) == Expr("|", <<p, q>>)

Map(F(_), seq) == [i \in DOMAIN seq |-> F(seq[i])]
Range(seq) == {seq[i] : i \in DOMAIN seq}

----------------------------------------------------------------------------
(* logic.py: symbols *)

is_symbol(op) == op \in Range(PropNames) \cup VarNames

is_prop_symbol(op) == is_symbol(op) /\ op \in Range(PropNames)

is_variable(x) == x.args = <<>> /\ x.op \in VarNames

RECURSIVE variables(_)
variables(x) ==
    (IF ~IsBool(x) /\ is_variable(x) THEN {x} ELSE {})
        \cup UNION {variables(x.args[i]) : i \in DOMAIN x.args}

RECURSIVE prop_symbols(_)
prop_symbols(x) ==
    IF IsBool(x) THEN {}
    ELSE IF is_prop_symbol(x.op) THEN {x}
    ELSE UNION {prop_symbols(x.args[i]) : i \in DOMAIN x.args}

----------------------------------------------------------------------------
(* logic.py: associate, dissociate, conjuncts *)

\* only the arguments themselves opened, not what they hold
dissociate_shallow(op, args) ==
    IF args = <<>> THEN <<>>
    ELSE LET open(arg) == IF arg.op = op THEN arg.args ELSE <<arg>>
             join[i \in 0..Len(args)] ==
                 IF i = 0 THEN <<>> ELSE join[i - 1] \o open(args[i])
         IN join[Len(args)]

\* the exception an element of args stands for, the first of them
FirstErr(args) ==
    LET bad == {i \in DOMAIN args : IsErr(args[i])} IN
    args[CHOOSE i \in bad : \A j \in bad : i <= j]
AnyErr(args) == \E i \in DOMAIN args : IsErr(args[i])

\* collect: "arg.op" raises AttributeError for an argument that is a Python
\* bool; the exception stands in the list, for associate to raise
RECURSIVE dissociate(_, _)
dissociate(op, args) ==
    IF args = <<>> THEN <<>>
    ELSE LET arg == Head(args) IN
         (IF IsBool(arg) THEN <<Raise(AttributeError)>>
          ELSE IF arg.op = op THEN dissociate(op, arg.args)
          ELSE <<arg>>)
             \o dissociate(op, Tail(args))

op_identity(op) == IF op = "&" THEN PyTrue ELSE PyFalse

associate(op, args) ==
    LET flat == dissociate(op, args) IN
    IF AnyErr(flat) THEN FirstErr(flat)
    ELSE IF Len(flat) = 0 THEN op_identity(op)
    ELSE IF Len(flat) = 1 THEN flat[1]
    ELSE Expr(op, flat)

conjuncts(x) == dissociate("&", <<x>>)

----------------------------------------------------------------------------
(* logic.py: the three stages of to_cnf *)


RECURSIVE eliminate_implications(_)
\* the implication rewritten with its operands exchanged
eliminate_implications_swapped(x) ==
    IF x.args = <<>> \/ is_symbol(x.op) THEN x
    ELSE LET args == Map(eliminate_implications, x.args)
             p == args[1]
             q == args[Len(args)]
         IN IF AnyErr(args) THEN FirstErr(args)
            ELSE IF x.op \in {">>", "==>"} THEN Or(p, Not(q))
            ELSE IF x.op \in {"<<", "<=="} THEN Or(p, Not(q))
            ELSE IF x.op = "<=>" THEN And(Or(p, Not(q)), Or(q, Not(p)))
            ELSE IF x.op = "^" THEN
                IF Len(args) = 2 THEN Or(And(p, Not(q)), And(Not(p), q))
                ELSE Raise(AssertionError)
            ELSE IF x.op \in {"&", "|", "~"} THEN Expr(x.op, args)
            ELSE Raise(AssertionError)

\* only the operator at the top rewritten, its operands left as they are
eliminate_implications_shallow(x) ==
    IF x.args = <<>> \/ is_symbol(x.op) THEN x
    ELSE LET args == x.args
             p == args[1]
             q == args[Len(args)]
         IN IF x.op \in {">>", "==>"} THEN Or(q, Not(p))
            ELSE IF x.op \in {"<<", "<=="} THEN Or(p, Not(q))
            ELSE IF x.op = "<=>" THEN And(Or(p, Not(q)), Or(q, Not(p)))
            ELSE IF x.op = "^" THEN
                IF Len(args) = 2 THEN Or(And(p, Not(q)), And(Not(p), q))
                ELSE Raise(AssertionError)
            ELSE IF x.op \in {"&", "|", "~"} THEN Expr(x.op, args)
            ELSE Raise(AssertionError)

eliminate_implications(x) ==
    IF x.args = <<>> \/ is_symbol(x.op) THEN x
    ELSE LET args == Map(eliminate_implications, x.args)
             p == args[1]
             q == args[Len(args)]
         IN IF AnyErr(args) THEN FirstErr(args)
            ELSE IF x.op \in {">>", "==>"} THEN Or(q, Not(p))
            ELSE IF x.op \in {"<<", "<=="} THEN Or(p, Not(q))
            ELSE IF x.op = "<=>" THEN And(Or(p, Not(q)), Or(q, Not(p)))
            ELSE IF x.op = "^" THEN
                IF Len(args) = 2 THEN Or(And(p, Not(q)), And(Not(p), q))
                ELSE Raise(AssertionError)
            ELSE IF x.op \in {"&", "|", "~"} THEN Expr(x.op, args)
            ELSE Raise(AssertionError)

RECURSIVE move_not_inwards(_)
move_not_inwards(x) ==
    IF x.op = "~" THEN
        LET a == x.args[1]
            NOT(b) == move_not_inwards(Not(b))
        IN IF a.op = "~" THEN move_not_inwards(a.args[1])
           ELSE IF a.op = "&" THEN associate("|", Map(NOT, a.args))
           ELSE IF a.op = "|" THEN associate("&", Map(NOT, a.args))
           ELSE x
    ELSE IF is_symbol(x.op) \/ x.args = <<>> THEN x
    ELSE Expr(x.op, Map(move_not_inwards, x.args))

\* first(arg for arg in args if arg.op == '&'): its position, 0 when there is none
FirstConj(args) ==
    LET hits == {i \in DOMAIN args : args[i].op = "&"} IN
    IF hits = {} THEN 0 ELSE CHOOSE i \in hits : \A j \in hits : i <= j

\* [a for a in args if a is not conj]: conj is one object, at position k
Others(args, k) == SubSeq(args, 1, k - 1) \o SubSeq(args, k + 1, Len(args))

RECURSIVE distribute_and_over_or(_)
\* the distributed disjunctions c | rest not distributed in their turn
distribute_and_over_or_once(x) ==
    IF IsBool(x) THEN Raise(AttributeError)
    ELSE IF x.op = "|" THEN
        LET d == associate("|", x.args) IN
        IF IsBool(d) THEN Raise(AttributeError)
        ELSE IF d.op # "|" THEN distribute_and_over_or(d)
        ELSE IF Len(d.args) = 0 THEN PyFalse
        ELSE IF Len(d.args) = 1 THEN distribute_and_over_or(d.args[1])
        ELSE LET k == FirstConj(d.args) IN
             IF k = 0 THEN d
             ELSE LET conj == d.args[k]
                      rest == associate("|", Others(d.args, k))
                      Dist(c) == Or(c, rest)
                      parts == Map(Dist, conj.args)
                  IN IF IsErr(rest) THEN rest
                     ELSE IF AnyErr(parts) THEN FirstErr(parts)
                     ELSE associate("&", parts)
    ELSE IF x.op = "&" THEN
        LET parts == Map(distribute_and_over_or, x.args) IN
        IF AnyErr(parts) THEN FirstErr(parts) ELSE associate("&", parts)
    ELSE x

distribute_and_over_or(x) ==
    IF IsBool(x) THEN Raise(AttributeError)
    ELSE IF x.op = "|" THEN
        LET d == associate("|", x.args) IN
        IF IsBool(d) THEN Raise(AttributeError)
        ELSE IF d.op # "|" THEN distribute_and_over_or(d)
        ELSE IF Len(d.args) = 0 THEN PyFalse
        ELSE IF Len(d.args) = 1 THEN distribute_and_over_or(d.args[1])
        ELSE LET k == FirstConj(d.args) IN
             IF k = 0 THEN d
             ELSE LET conj == d.args[k]
                      rest == associate("|", Others(d.args, k))
                      Dist(c) == distribute_and_over_or(Or(c, rest))
                      parts == Map(Dist, conj.args)
                  IN IF IsErr(rest) THEN rest
                     ELSE IF AnyErr(parts) THEN FirstErr(parts)
                     ELSE associate("&", parts)
    ELSE IF x.op = "&" THEN
        LET parts == Map(distribute_and_over_or, x.args) IN
        IF AnyErr(parts) THEN FirstErr(parts) ELSE associate("&", parts)
    ELSE x

\* the conjuncts of the result in reverse order
to_cnf_reversed(x) ==
    LET e == eliminate_implications(x)
        c == distribute_and_over_or(move_not_inwards(e))
    IN IF IsErr(e) THEN e
       ELSE IF c.op = "&"
       THEN Expr("&", [i \in DOMAIN c.args |-> c.args[Len(c.args) + 1 - i]])
       ELSE c

to_cnf(x) ==
    LET e == eliminate_implications(x) IN
    IF IsErr(e) THEN e
    ELSE distribute_and_over_or(move_not_inwards(e))

----------------------------------------------------------------------------
(* logic.py: pl_true *)

EmptyModel == [a \in {} |-> True]

extend(model, var, val) ==
    [a \in DOMAIN model \cup {var} |-> IF a = var THEN val ELSE model[a]]

PyNot(v) == IF v = True THEN False ELSE True
PyBool(b) == IF b THEN True ELSE False

RECURSIVE pl_true(_, _)
RECURSIVE pl_true_or(_, _, _, _)
RECURSIVE pl_true_and(_, _, _, _)
RECURSIVE pl_true_or_eager(_, _, _, _)
RECURSIVE pl_true_and_eager(_, _, _, _)

\* the '|' loop left at the first argument that is None
pl_true_or_eager(args, model, i, result) ==
    IF i > Len(args) THEN result
    ELSE LET p == pl_true(args[i], model) IN
         IF p \in Exceptions THEN p
         ELSE IF p = True THEN True
         ELSE IF p = None THEN None
         ELSE pl_true_or_eager(args, model, i + 1, result)

\* the '&' loop left at the first argument that is None
pl_true_and_eager(args, model, i, result) ==
    IF i > Len(args) THEN result
    ELSE LET p == pl_true(args[i], model) IN
         IF p \in Exceptions THEN p
         ELSE IF p = False THEN False
         ELSE IF p = None THEN None
         ELSE pl_true_and_eager(args, model, i + 1, result)

\* the loop of the '|' branch, from argument i on, with result as it stands
pl_true_or(args, model, i, result) ==
    IF i > Len(args) THEN result
    ELSE LET p == pl_true(args[i], model) IN
         IF p \in Exceptions THEN p
         ELSE IF p = True THEN True
         ELSE pl_true_or(args, model, i + 1, IF p = None THEN None ELSE result)

\* the loop of the '&' branch
pl_true_and(args, model, i, result) ==
    IF i > Len(args) THEN result
    ELSE LET p == pl_true(args[i], model) IN
         IF p \in Exceptions THEN p
         ELSE IF p = False THEN False
         ELSE pl_true_and(args, model, i + 1, IF p = None THEN None ELSE result)

pl_true(exp, model) ==
    IF IsBool(exp) THEN exp.op
    ELSE LET op == exp.op
             args == exp.args
         IN
    IF is_prop_symbol(op) THEN (IF exp \in DOMAIN model THEN model[exp] ELSE None)
    ELSE IF op = "~" THEN
        IF args = <<>> THEN IndexError
        ELSE LET p == pl_true(args[1], model) IN
             IF p \in Exceptions \/ p = None THEN p ELSE PyNot(p)
    ELSE IF op = "|" THEN pl_true_or(args, model, 1, False)
    ELSE IF op = "&" THEN pl_true_and(args, model, 1, True)
    ELSE IF Len(args) # 2 THEN ValueError
    ELSE LET p == args[1]
             q == args[2]
         IN
    IF op \in {">>", "==>"} THEN pl_true(Or(Not(p), q), model)
    ELSE IF op \in {"<<", "<=="} THEN pl_true(Or(p, Not(q)), model)
    ELSE LET pt == pl_true(p, model) IN
         IF pt \in Exceptions \/ pt = None THEN pt
         ELSE LET qt == pl_true(q, model) IN
              IF qt \in Exceptions \/ qt = None THEN qt
              ELSE IF op = "<=>" THEN PyBool(pt = qt)
              ELSE IF op = "^" THEN PyBool(pt # qt)
              ELSE ValueError

----------------------------------------------------------------------------
(* logic.py: tt_entails *)

RECURSIVE tt_check_all(_, _, _, _)
\* the two branches joined by "or" instead of "and"
tt_check_all_or(kb_, alpha_, symbols, model) ==
    IF symbols = <<>> THEN
        LET k == pl_true(kb_, model) IN
        IF k \in Exceptions THEN k
        ELSE IF k = True THEN
            LET result == pl_true(alpha_, model) IN
            IF result \in Exceptions THEN result
            ELSE IF result \in {True, False} THEN result
            ELSE AssertionError
        ELSE True
    ELSE LET sym == Head(symbols)
             rest == Tail(symbols)
             left == tt_check_all(kb_, alpha_, rest, extend(model, sym, True))
         IN IF left # False THEN left
            ELSE tt_check_all(kb_, alpha_, rest, extend(model, sym, False))

tt_check_all(kb_, alpha_, symbols, model) ==
    IF symbols = <<>> THEN
        LET k == pl_true(kb_, model) IN
        IF k \in Exceptions THEN k
        ELSE IF k = True THEN
            LET result == pl_true(alpha_, model) IN
            IF result \in Exceptions THEN result
            ELSE IF result \in {True, False} THEN result
            ELSE AssertionError
        ELSE True
    ELSE LET sym == Head(symbols)
             rest == Tail(symbols)
             left == tt_check_all(kb_, alpha_, rest, extend(model, sym, True))
         IN IF left # True THEN left
            ELSE tt_check_all(kb_, alpha_, rest, extend(model, sym, False))

\* list(a set): the elements of the set in any order
ListsOf(S) ==
    {f \in [1..Cardinality(S) -> S] : \A i, j \in DOMAIN f : i # j => f[i] # f[j]}

\* the assertion made after the enumeration
tt_entails_late(kb_, alpha_, symbols) ==
    LET r == tt_check_all(kb_, alpha_, symbols, EmptyModel) IN
    IF r \in Exceptions THEN r
    ELSE IF variables(alpha_) # {} THEN AssertionError
    ELSE r

\* symbols is list(prop_symbols(kb & alpha)), whose order Python leaves open
tt_entails(kb_, alpha_, symbols) ==
    IF variables(alpha_) # {} THEN AssertionError
    ELSE tt_check_all(kb_, alpha_, symbols, EmptyModel)

\* the symbols of kb alone
SymbolLists_kb(kb_, alpha_) == ListsOf(prop_symbols(kb_))

SymbolLists(kb_, alpha_) == ListsOf(prop_symbols(And(kb_, alpha_)))

----------------------------------------------------------------------------
(* Input sentences *)

BinOps == {"&", "|", "==>", "<==", "<=>", "^"}

Atoms == {Atom(PropNames[i]) : i \in 1..NumProps}

\* the sentences with exactly n connectives
SentencesOfSize[n \in Nat] ==
    IF n = 0 THEN Atoms
    ELSE {Not(x) : x \in SentencesOfSize[n - 1]}
         \cup UNION {{Expr(op, <<x, y>>) : op \in BinOps,
                                           x \in SentencesOfSize[i],
                                           y \in SentencesOfSize[n - 1 - i]}
                     : i \in 0..(n - 1)}

SentencesUpTo(n) == UNION {SentencesOfSize[i] : i \in 0..n}

TotalModels(x) == [prop_symbols(x) -> {True, False}]

----------------------------------------------------------------------------
(* State *)

NoExpr == Expr("none", <<>>)
NoVals == [done |-> FALSE, model |-> EmptyModel, of_s |-> None, of_cnf |-> None]
NoLast == [op |-> "init", arg |-> NoExpr, pre |-> <<>>]
NoTrack == [phase |-> "none", arg |-> NoExpr, base |-> <<>>]
NoAsk == [done |-> FALSE, query |-> NoExpr, result |-> None, probes |-> <<>>,
          pre |-> <<>>]
NoTold == [sentences |-> <<>>, retracted |-> FALSE]
NoAssoc == [done |-> FALSE, op |-> "&", args |-> <<>>, result |-> NoExpr]
NoRet == Expr("not called", <<>>)
NoRoute == [done |-> FALSE]
\* the agent after reset: no plan, time 0, agent_program not called yet
NoAgent ==
    [calls |-> 0, time |-> 0, start |-> 0, plan |-> <<>>, at_pop |-> <<>>,
     action |-> "none", told |-> [prop |-> "none", time |-> 0],
     glitter |-> "not asked", have_arrow |-> "not asked", raised |-> "none"]

IdleCNF == s = NoExpr /\ cnf = NoExpr /\ vals = NoVals
IdleTT == kb = NoExpr /\ alpha = NoExpr /\ entailed = None
IdleKB == clauses = <<>> /\ last = NoLast /\ track = NoTrack /\ asked = NoAsk
             /\ told = NoTold /\ backend = "none"
IdleMore == ret = NoRet /\ route = NoRoute /\ agent = NoAgent
IdleFun == again = NoExpr /\ assoc = NoAssoc /\ IdleMore

----------------------------------------------------------------------------
(* to_cnf applied to a sentence, and pl_true applied to both *)

InitCNF ==
    /\ s \in SentencesUpTo(MaxOps) /\ cnf = NoExpr /\ vals = NoVals
    /\ IdleTT /\ IdleKB /\ IdleFun

Convert ==
    /\ cnf = NoExpr
    /\ cnf' = to_cnf(s)
    /\ UNCHANGED <<again, assoc, backend, ret, route, agent>>
    /\ UNCHANGED <<s, vals, kb, alpha, entailed, clauses, last, track, asked, told>>

Evaluate ==
    /\ cnf # NoExpr
    /\ \E m \in TotalModels(s) :
        vals' = [done |-> TRUE, model |-> m,
                 of_s |-> pl_true(s, m), of_cnf |-> pl_true(cnf, m)]
    /\ UNCHANGED <<again, assoc, backend, ret, route, agent>>
    /\ UNCHANGED <<s, cnf, kb, alpha, entailed, clauses, last, track, asked, told>>

NextCNF == Convert \/ Evaluate

SpecCNF == InitCNF /\ [][NextCNF]_vars

\* C1: under every total assignment over the symbols of s, pl_true gives
\* to_cnf(s) the truth value it gives s.
C1_SemanticEquivalence ==
    vals.done => /\ vals.of_s \in {True, False}
                 /\ vals.of_cnf = vals.of_s

C1_Witness ==
    /\ vals.done
    /\ s.op = "<=>"
    /\ cnf # s
    /\ vals.of_s = True

IsAtom(x) == x.args = <<>> /\ is_prop_symbol(x.op)

RECURSIVE OnlyNotAndOr(_)
OnlyNotAndOr(x) ==
    \/ IsAtom(x)
    \/ /\ x.op \in {"~", "&", "|"}
       /\ x.args # <<>>
       /\ \A i \in DOMAIN x.args : OnlyNotAndOr(x.args[i])

RECURSIVE HasOp(_, _)
HasOp(x, op) == x.op = op \/ \E i \in DOMAIN x.args : HasOp(x.args[i], op)

RECURSIVE NoAndInsideOr(_)
NoAndInsideOr(x) ==
    /\ x.op = "|" => \A i \in DOMAIN x.args : ~HasOp(x.args[i], "&")
    /\ \A i \in DOMAIN x.args : NoAndInsideOr(x.args[i])

RECURSIVE NotOnlyOnAtoms(_)
NotOnlyOnAtoms(x) ==
    /\ x.op = "~" => Len(x.args) = 1 /\ IsAtom(x.args[1])
    /\ \A i \in DOMAIN x.args : NotOnlyOnAtoms(x.args[i])

\* C2: to_cnf(s) uses only ~, & and |, has no conjunction inside a
\* disjunction, and negates atoms only.
C2_CnfWellFormed ==
    cnf # NoExpr => /\ OnlyNotAndOr(cnf)
                    /\ NoAndInsideOr(cnf)
                    /\ NotOnlyOnAtoms(cnf)

C2_Witness ==
    /\ cnf # NoExpr
    /\ s.op = "|"
    /\ \E i \in DOMAIN s.args : s.args[i].op = "^"
    /\ cnf.op = "&"

----------------------------------------------------------------------------
(* to_cnf applied to its own result *)

Reconvert ==
    /\ cnf # NoExpr
    /\ again = NoExpr
    /\ again' = IF IsErr(cnf) THEN cnf ELSE to_cnf(cnf)
    /\ UNCHANGED <<assoc, backend, ret, route, agent>>
    /\ UNCHANGED <<s, cnf, vals, kb, alpha, entailed, clauses, last, track, asked, told>>

NextIdem == Convert \/ Reconvert

SpecIdem == InitCNF /\ [][NextIdem]_vars

\* C13: to_cnf applied to to_cnf(s) gives to_cnf(s) again, structurally.
C13_Idempotent ==
    again # NoExpr => again = cnf

C13_Witness ==
    /\ s = Or(And(P, Q), Atom("R"))
    /\ cnf = And(Or(P, Atom("R")), Or(Q, Atom("R")))
    /\ again = cnf

----------------------------------------------------------------------------
(* pl_true under partial models *)

Literals == Atoms \cup {Not(a) : a \in Atoms}

ArgLists(S, n) == UNION {[1..k -> S] : k \in 0..n}

\* disjunctions and conjunctions of up to MaxArgs literals or pairs
NaryExprs ==
    {Expr(op, args) : op \in {"|", "&"},
                      args \in ArgLists(Literals \cup {And(P, Q), Or(P, Q)}, MaxArgs)}

\* the operator/arity combinations pl_true defines
Defined(x) ==
    \/ IsBool(x)
    \/ is_prop_symbol(x.op) /\ x.args = <<>>
    \/ x.op = "~" /\ Len(x.args) = 1
    \/ x.op \in {"|", "&"}
    \/ x.op \in {">>", "==>", "<<", "<==", "<=>", "^"} /\ Len(x.args) = 2

\* expressions over atoms whose operator/arity combination is not defined
IllegalExprs ==
    {x \in {Expr(op, args) : op \in {"+", "~", "==>", "<=>", "^"},
                             args \in ArgLists(Atoms, MaxArgs)} : ~Defined(x)}

PartialModels(x) == UNION {[D -> {True, False}] : D \in SUBSET prop_symbols(x)}

InitPartial ==
    /\ s \in Atoms \cup NaryExprs \cup IllegalExprs
    /\ cnf = NoExpr /\ vals = NoVals
    /\ IdleTT /\ IdleKB /\ IdleFun

EvaluatePartial ==
    /\ ~vals.done
    /\ \E m \in PartialModels(s) :
        vals' = [done |-> TRUE, model |-> m, of_s |-> pl_true(s, m), of_cnf |-> None]
    /\ UNCHANGED <<again, assoc, backend, ret, route, agent>>
    /\ UNCHANGED <<s, cnf, kb, alpha, entailed, clauses, last, track, asked, told>>

NextPartial == EvaluatePartial

SpecPartial == InitPartial /\ [][NextPartial]_vars

\* the values pl_true gives the arguments of s under the model
ArgValues == {pl_true(s.args[i], vals.model) : i \in DOMAIN s.args}

\* C14: pl_true of a disjunction is True when some argument is True, else
\* None when some argument is None, else False; pl_true of a symbol the
\* model does not bind is None.
C14_Disjunction ==
    vals.done =>
        /\ s.op = "|" =>
              vals.of_s = IF True \in ArgValues THEN True
                          ELSE IF None \in ArgValues THEN None
                          ELSE False
        /\ IsAtom(s) /\ s \notin DOMAIN vals.model => vals.of_s = None

C14_Witness ==
    /\ vals.done
    /\ s = Expr("|", <<P, Q, Atom("R")>>)
    /\ DOMAIN vals.model = {Q}
    /\ vals.model[Q] = True
    /\ vals.of_s = True

\* C15: pl_true of a conjunction is False when some argument is False, else
\* None when some argument is None, else True.
C15_Conjunction ==
    vals.done /\ s.op = "&" =>
        vals.of_s = IF False \in ArgValues THEN False
                    ELSE IF None \in ArgValues THEN None
                    ELSE True

C15_Witness ==
    /\ vals.done
    /\ s = Expr("&", <<P, Q, Not(Atom("R"))>>)
    /\ DOMAIN vals.model = {Atom("R")}
    /\ vals.model[Atom("R")] = True
    /\ vals.of_s = False

\* C16 as stated: for an expression whose operator/arity combination is not
\* defined, pl_true raises the illegal-operator ValueError under every
\* model, partial ones included.
C16_IllegalAlwaysFaults ==
    vals.done /\ ~Defined(s) => vals.of_s = ValueError

----------------------------------------------------------------------------
(* tt_entails applied to a knowledge base and a query *)

InitTT ==
    /\ kb \in SentencesUpTo(MaxTTOps) /\ alpha \in SentencesUpTo(MaxTTOps)
    /\ entailed = None
    /\ IdleCNF /\ IdleKB /\ IdleFun

Entail ==
    /\ \E symbols \in SymbolLists(kb, alpha) :
        entailed' = tt_entails(kb, alpha, symbols)
    /\ UNCHANGED <<again, assoc, backend, ret, route, agent>>
    /\ UNCHANGED <<s, cnf, vals, kb, alpha, clauses, last, track, asked, told>>

NextTT == Entail

SpecTT == InitTT /\ [][NextTT]_vars

\* some total assignment makes kb true and alpha not true
Falsifiable(kb_, alpha_) ==
    \E m \in TotalModels(And(kb_, alpha_)) :
        pl_true(kb_, m) = True /\ pl_true(alpha_, m) # True

\* C3: tt_entails(kb, alpha) is true exactly when no total assignment makes
\* kb true and alpha not true; P & Q entails Q and P | Q does not.
C3_EntailmentCorrect ==
    entailed # None =>
        /\ entailed \in {True, False}
        /\ entailed = True <=> ~Falsifiable(kb, alpha)
        /\ kb = And(P, Q) /\ alpha = Q => entailed = True
        /\ kb = Or(P, Q) /\ alpha = Q => entailed = False

C3_Witness ==
    /\ kb = Or(P, Q)
    /\ alpha = Q
    /\ entailed = False

----------------------------------------------------------------------------
(* logic.py: KB and PropKB *)

EmptySubst == "{}"

\* only the conjuncts not yet stored are appended
PropKB_tell_dedup(cl, sentence) ==
    LET c == to_cnf(sentence) IN
    IF IsErr(c) THEN cl
    ELSE cl \o SelectSeq(conjuncts(c), LAMBDA e : \A i \in DOMAIN cl : cl[i] # e)

\* to_cnf(sentence) appended whole
PropKB_tell_whole(cl, sentence) ==
    LET c == to_cnf(sentence) IN
    IF IsErr(c) THEN cl ELSE Append(cl, c)

PropKB_tell(cl, sentence) ==
    LET c == to_cnf(sentence) IN
    IF IsErr(c) THEN cl ELSE cl \o conjuncts(c)

\* c in self.clauses
Contains(cl, c) == \E i \in DOMAIN cl : cl[i] = c

\* every occurrence of c leaves the list
ListRemoveAll(cl, c) == SelectSeq(cl, LAMBDA e : e # c)

\* list.remove(c): the first element equal to c leaves the list
ListRemove(cl, c) ==
    LET k == CHOOSE i \in DOMAIN cl : cl[i] = c /\ \A j \in 1..(i - 1) : cl[j] # c
    IN SubSeq(cl, 1, k - 1) \o SubSeq(cl, k + 1, Len(cl))

\* the loop of retract over the conjuncts cs
RECURSIVE retract_loop(_, _)
retract_loop(cl, cs) ==
    IF cs = <<>> THEN cl
    ELSE LET c == Head(cs) IN
         retract_loop(IF Contains(cl, c) THEN ListRemove(cl, c) ELSE cl, Tail(cs))

\* the loop left after its first conjunct
PropKB_retract_first(cl, sentence) ==
    LET c == to_cnf(sentence) IN
    IF IsErr(c) THEN cl ELSE retract_loop(cl, <<Head(conjuncts(c))>>)

\* the sentence looked up as it is, not its CNF conjuncts
PropKB_retract_raw(cl, sentence) == retract_loop(cl, <<sentence>>)

PropKB_retract(cl, sentence) ==
    LET c == to_cnf(sentence) IN
    IF IsErr(c) THEN cl ELSE retract_loop(cl, conjuncts(c))

\* the empty substitution taken for "no result" because it is falsy
KB_ask_falsy(cl, query, symbols) ==
    LET r == tt_entails(Expr("&", cl), query, symbols) IN
    IF r \in Exceptions THEN r ELSE False

\* ask_generator yields {} when tt_entails is true; ask takes the first
\* result or False
KB_ask(cl, query, symbols) ==
    LET r == tt_entails(Expr("&", cl), query, symbols) IN
    IF r \in Exceptions THEN r
    ELSE IF r = True THEN EmptySubst
    ELSE False

\* the query kept in the store by the call
PropKB_ask_storing(cl, query, symbols) ==
    [result |-> KB_ask(cl, query, symbols), clauses |-> Append(cl, query)]

\* KB.ask over PropKB.ask_generator: the answer, and self.clauses as the
\* call leaves it (ask_generator only reads the list to build Expr('&', ...))
PropKB_ask(cl, query, symbols) ==
    [result |-> KB_ask(cl, query, symbols), clauses |-> cl]

----------------------------------------------------------------------------
(* tt_entails applied to a query that may hold variables *)

Terms == Atoms \cup {Atom(v) : v \in VarNames}

\* the sentences of at most one connective over symbols and variables
VarSentences ==
    Terms \cup {Not(a) : a \in Terms}
          \cup {Expr(op, <<a, b>>) : op \in BinOps, a \in Terms, b \in Terms}

InitVar ==
    /\ kb \in Literals \cup {And(a, Not(a)) : a \in Atoms}
    /\ alpha \in VarSentences
    /\ entailed = None
    /\ IdleCNF /\ IdleKB /\ IdleFun

NextVar == Entail

SpecVar == InitVar /\ [][NextVar]_vars

\* C17: when alpha holds a variable, tt_entails raises AssertionError,
\* whatever kb is and whatever the enumeration would have returned or raised.
C17_VariablePrecondition ==
    entailed # None /\ variables(alpha) # {} => entailed = AssertionError

C17_Witness ==
    /\ kb = And(P, Not(P))
    /\ alpha = Atom("x")
    /\ entailed = AssertionError

----------------------------------------------------------------------------
(* associate applied to an operator and a list of arguments *)

\* arguments for associate: atoms, flat and nested conjunctions and
\* disjunctions, and the two empty ones
AssocArgs ==
    {P, Q, And(P, Q), Or(Q, Atom("R")), And(Q, Atom("R")),
     Or(P, Or(Q, Or(Atom("R"), And(P, Q)))),
     And(And(And(P, Q), Atom("R")), Or(P, Q)),
     Expr("&", <<>>), Expr("|", <<>>)}

InitAssoc ==
    /\ assoc \in {[done |-> FALSE, op |-> op, args |-> args, result |-> NoExpr] :
                      op \in {"&", "|"}, args \in ArgLists(AssocArgs, MaxArgs)}
    /\ again = NoExpr
    /\ IdleCNF /\ IdleTT /\ IdleKB /\ IdleMore

Associate ==
    /\ ~assoc.done
    /\ assoc' = [assoc EXCEPT !.done = TRUE,
                               !.result = associate(assoc.op, assoc.args)]
    /\ UNCHANGED <<again, backend, ret, route, agent>>
    /\ UNCHANGED <<s, cnf, vals, kb, alpha, entailed, clauses, last, track, asked, told>>

NextAssoc == Associate

SpecAssoc == InitAssoc /\ [][NextAssoc]_vars

\* the subexpressions of x met first, left to right, below nodes of op only
RECURSIVE Frontier(_, _)
Frontier(op, x) ==
    IF x.op # op THEN <<x>>
    ELSE LET join[i \in 0..Len(x.args)] ==
                 IF i = 0 THEN <<>> ELSE join[i - 1] \o Frontier(op, x.args[i])
         IN join[Len(x.args)]

\* C18: associate(op, args) is built from the arguments with every nested
\* node of op opened, at any depth and in order: the identity of op when
\* nothing is left, the one argument left when there is one, and else the
\* node of op over them, none of which is a node of op.
C18_AssociateFlattens ==
    assoc.done =>
        LET flat == Frontier(assoc.op, Expr(assoc.op, assoc.args)) IN
        /\ \A i \in DOMAIN flat : flat[i].op # assoc.op
        /\ Len(flat) = 0 =>
              assoc.result = IF assoc.op = "&" THEN PyTrue ELSE PyFalse
        /\ Len(flat) = 1 => assoc.result = flat[1]
        /\ Len(flat) > 1 => assoc.result = Expr(assoc.op, flat)

C18_Witness ==
    /\ assoc.done
    /\ assoc.op = "&"
    /\ assoc.args = <<And(P, Q), Or(Q, Atom("R")), And(Q, Atom("R"))>>
    /\ assoc.result = Expr("&", <<P, Q, Or(Q, Atom("R")), Q, Atom("R")>>)

----------------------------------------------------------------------------
(* A PropKB under tell, retract and ask *)

Implies(p, q) == Expr("==>", <<p, q>>)
Iff(p, q) == Expr("<=>", <<p, q>>)
Xor(p, q) == Expr("^", <<p, q>>)

KBSentences ==
    {P, Not(P), And(P, Q), Implies(P, Q), Iff(P, Q), Xor(P, Q)}

Init ==
    /\ clauses = <<>>
    /\ last = NoLast
    /\ track = NoTrack
    /\ asked = NoAsk
    /\ told = NoTold
    /\ backend = "PropKB"
    /\ IdleCNF /\ IdleTT /\ IdleFun

Tell(x) ==
    /\ Len(PropKB_tell(clauses, x)) <= MaxClauses
    /\ clauses' = PropKB_tell(clauses, x)
    /\ last' = [op |-> "tell", arg |-> x, pre |-> clauses]
    /\ track' = NoTrack
    /\ asked' = NoAsk
    /\ UNCHANGED <<again, assoc, backend, ret, route, agent>>
    /\ UNCHANGED <<s, cnf, vals, kb, alpha, entailed, told>>

Retract(x) ==
    /\ clauses' = PropKB_retract(clauses, x)
    /\ last' = [op |-> "retract", arg |-> x, pre |-> clauses]
    /\ track' = IF last.op = "tell" /\ last.arg = x
                THEN [phase |-> "retracted", arg |-> x, base |-> last.pre]
                ELSE NoTrack
    /\ asked' = NoAsk
    /\ UNCHANGED <<again, assoc, backend, ret, route, agent>>
    /\ UNCHANGED <<s, cnf, vals, kb, alpha, entailed, told>>

Ask(q) ==
    /\ \E symbols \in SymbolLists(Expr("&", clauses), q) :
        \E r \in {PropKB_ask(clauses, q, symbols)} :
        /\ asked' = [done |-> TRUE, query |-> q, result |-> r.result,
                     probes |-> <<>>, pre |-> clauses]
        /\ clauses' = r.clauses
    /\ UNCHANGED <<again, assoc, backend, ret, route, agent>>
    /\ UNCHANGED <<s, cnf, vals, kb, alpha, entailed, last, track, told>>

Next ==
    \/ \E x \in KBSentences : Tell(x)
    \/ \E x \in KBSentences : Retract(x)
    \/ \E q \in KBSentences : Ask(q)

Spec == Init /\ [][Next]_vars

\* the conjunction of cl entails x, whatever the order of the symbols
Entails(cl, x) ==
    \A symbols \in SymbolLists(Expr("&", cl), x) :
        tt_entails(Expr("&", cl), x, symbols) = True

\* C4: ask(s) right after tell(s) returns the empty substitution.
C4_TellThenAsk ==
    last.op = "tell" /\ asked.done /\ asked.query = last.arg
        => asked.result = EmptySubst

C4_Witness ==
    /\ last.op = "tell"
    /\ last.arg = Iff(P, Q)
    /\ last.pre # <<>>
    /\ asked.done
    /\ asked.query = last.arg
    /\ asked.result = EmptySubst

\* C5: when the clauses stored before tell(s) do not entail s, ask(s) after
\* tell(s) and retract(s) returns False.
C5_RetractThenAsk ==
    /\ track.phase = "retracted"
    /\ ~Entails(track.base, track.arg)
    /\ asked.done
    /\ asked.query = track.arg
    => asked.result = False

C5_Witness ==
    /\ track.phase = "retracted"
    /\ track.arg = And(P, Q)
    /\ track.base = <<P>>
    /\ asked.done
    /\ asked.query = track.arg
    /\ asked.result = False

\* C6: tell(s) leaves the stored clauses in place and appends the
\* conjuncts of to_cnf(s) in order, those already stored included.
C6_TellAppends ==
    last.op = "tell" =>
        LET new == conjuncts(to_cnf(last.arg)) IN
        /\ Len(clauses) = Len(last.pre) + Len(new)
        /\ SubSeq(clauses, 1, Len(last.pre)) = last.pre
        /\ \A i \in DOMAIN new : clauses[Len(last.pre) + i] = new[i]

C6_Witness ==
    /\ last.op = "tell"
    /\ last.arg = And(P, Q)
    /\ last.pre = <<P, Q>>
    /\ clauses = <<P, Q, P, Q>>

Count(seq, v) == Cardinality({i \in DOMAIN seq : seq[i] = v})
Rank(seq, i) == Cardinality({j \in 1..i : seq[j] = seq[i]})

RECURSIVE Pick(_, _, _)
Pick(seq, keep, i) ==
    IF i > Len(seq) THEN <<>>
    ELSE (IF i \in keep THEN <<seq[i]>> ELSE <<>>) \o Pick(seq, keep, i + 1)

\* seq without, for each value, as many of its first occurrences as cs has
WithoutFirst(seq, cs) ==
    Pick(seq, {i \in DOMAIN seq : Rank(seq, i) > Count(cs, seq[i])}, 1)

\* C7: retract(s) removes, per conjunct of to_cnf(s), the first equal stored
\* clause only; the others stay in their order, and a store holding none of
\* the conjuncts is unchanged.
C7_RetractFirstOnly ==
    last.op = "retract" =>
        LET cs == conjuncts(to_cnf(last.arg)) IN
        /\ clauses = WithoutFirst(last.pre, cs)
        /\ (\A i \in DOMAIN cs : ~Contains(last.pre, cs[i])) => clauses = last.pre

C7_Witness ==
    /\ last.op = "retract"
    /\ last.arg = P
    /\ last.pre = <<P, Q, P>>
    /\ clauses = <<Q, P>>

\* C26: tell(s) followed at once by retract(s) leaves every clause stored
\* as many times as before the tell, in whatever order, and every ask
\* after the pair gives the answer it gives over the clauses stored before
\* the tell.
C26_TellRetractRestores ==
    track.phase = "retracted" =>
        /\ \A i \in DOMAIN clauses :
               Count(clauses, clauses[i]) = Count(track.base, clauses[i])
        /\ \A i \in DOMAIN track.base :
               Count(clauses, track.base[i]) = Count(track.base, track.base[i])
        /\ asked.done =>
               \A symbols \in SymbolLists(Expr("&", track.base), asked.query) :
                   asked.result = PropKB_ask(track.base, asked.query, symbols).result

\* the pair changes the order: P, Q becomes Q, P
C26_Witness ==
    /\ track.phase = "retracted"
    /\ track.arg = P
    /\ track.base = <<P, Q>>
    /\ clauses = <<Q, P>>
    /\ asked.done
    /\ asked.query = And(P, Q)
    /\ asked.result = EmptySubst

IsLiteral(x) == IsAtom(x) \/ (x.op = "~" /\ Len(x.args) = 1 /\ IsAtom(x.args[1]))

IsClause(x) ==
    \/ IsLiteral(x)
    \/ x.op = "|" /\ \A i \in DOMAIN x.args : IsLiteral(x.args[i])

\* C19: after any tells and retracts every stored element is a literal or
\* a disjunction of literals.
C19_StoredClauseShaped ==
    \A i \in DOMAIN clauses : IsClause(clauses[i])

C19_Witness ==
    /\ last.op = "retract"
    /\ last.arg = P
    /\ last.pre = <<Or(P, Not(Q)), Or(Q, Not(P)), P>>
    /\ clauses = <<Or(P, Not(Q)), Or(Q, Not(P))>>

----------------------------------------------------------------------------
(* wumpus_agent.py: minisat and PropKB_SAT *)

PyNone == Expr("None", <<>>)

\* "if sentence:" fails for None and for False
IsFalsy(x) == x \in {PyNone, PyFalse}

\* Minisat.solve(c, variable, value).success: some assignment with the
\* variable at the value makes every clause of c true
Minisat_solve(c, variable, value) ==
    PyBool(\E m \in [prop_symbols(Expr("&", c)) \cup {variable} -> {True, False}] :
               /\ m[variable] = value
               /\ \A i \in DOMAIN c : pl_true(c[i], m) = True)

minisat(cl, query, variable, value) ==
    LET c == IF IsFalsy(query) THEN cl ELSE cl \o <<query>> IN
    [clauses |-> c, variable |-> variable, value |-> value,
     success |-> Minisat_solve(c, variable, value)]

\* the sentence stored as it is
PropKB_SAT_tell_raw(cl, sentence) ==
    IF IsFalsy(sentence) THEN cl ELSE Append(cl, sentence)

PropKB_SAT_tell(cl, sentence) ==
    IF IsFalsy(sentence) THEN cl ELSE PropKB_tell(cl, sentence)

\* the answer is that of the first probe, whatever the second
PropKB_SAT_ask_first(cl, query) ==
    LET s_true == minisat(cl, PyNone, query, True)
        s_false == minisat(cl, PyNone, query, False)
    IN [result |-> s_true.success, probes |-> <<s_true, s_false>>,
        clauses |-> cl]

\* the answer is that of the second probe
PropKB_SAT_ask_second(cl, query) ==
    LET s_true == minisat(cl, PyNone, query, True)
        s_false == minisat(cl, PyNone, query, False)
    IN [result |-> IF s_true.success = s_false.success THEN None
                   ELSE s_false.success,
        probes |-> <<s_true, s_false>>, clauses |-> cl]

\* the answer given in the shape of PropKB.ask: {} for true
PropKB_SAT_ask_subst(cl, query) ==
    LET s_true == minisat(cl, PyNone, query, True)
        s_false == minisat(cl, PyNone, query, False)
    IN [result |-> IF s_true.success = s_false.success THEN None
                   ELSE IF s_true.success = True THEN EmptySubst ELSE False,
        probes |-> <<s_true, s_false>>, clauses |-> cl]

\* the probed variable left in the list the probes were given
PropKB_SAT_ask_storing(cl, query) ==
    LET s_true == minisat(cl, PyNone, query, True)
        s_false == minisat(cl, PyNone, query, False)
    IN [result |-> IF s_true.success = s_false.success THEN None
                   ELSE s_true.success,
        probes |-> <<s_true, s_false>>, clauses |-> Append(cl, query)]

\* result: the answer; probes: the two solutions; clauses: self.clauses as
\* the call leaves it (minisat binds c to the same list when there is no
\* query and only hands it to the solver)
PropKB_SAT_ask(cl, query) ==
    LET s_true == minisat(cl, PyNone, query, True)
        s_false == minisat(cl, PyNone, query, False)
    IN [result |-> IF s_true.success = s_false.success THEN None
                   ELSE s_true.success,
        probes |-> <<s_true, s_false>>, clauses |-> cl]

----------------------------------------------------------------------------
(* A PropKB_SAT under tell, retract and ask *)

SATSentences == KBSentences \cup {PyNone}

SATQueries == {P, Q, Atom("R")}

InitSAT ==
    /\ clauses = <<>>
    /\ last = NoLast
    /\ track = NoTrack
    /\ asked = NoAsk
    /\ told = NoTold
    /\ backend = "PropKB_SAT"
    /\ IdleCNF /\ IdleTT /\ IdleFun

SatTell(x) ==
    /\ Len(PropKB_SAT_tell(clauses, x)) <= MaxClauses
    /\ clauses' = PropKB_SAT_tell(clauses, x)
    /\ told' = IF told.retracted \/ IsFalsy(x) THEN told
               ELSE [told EXCEPT !.sentences = Append(@, x)]
    /\ asked' = NoAsk
    /\ UNCHANGED <<again, assoc, backend, ret, route, agent>>
    /\ UNCHANGED <<s, cnf, vals, kb, alpha, entailed, last, track>>

SatRetract(x) ==
    /\ clauses' = PropKB_retract(clauses, x)
    /\ told' = [sentences |-> <<>>, retracted |-> TRUE]
    /\ asked' = NoAsk
    /\ UNCHANGED <<again, assoc, backend, ret, route, agent>>
    /\ UNCHANGED <<s, cnf, vals, kb, alpha, entailed, last, track>>

SatAsk(q) ==
    /\ \E r \in {PropKB_SAT_ask(clauses, q)} :
        /\ asked' = [done |-> TRUE, query |-> q, result |-> r.result,
                     probes |-> r.probes, pre |-> clauses]
        /\ clauses' = r.clauses
    /\ UNCHANGED <<again, assoc, backend, ret, route, agent>>
    /\ UNCHANGED <<s, cnf, vals, kb, alpha, entailed, last, track, told>>

NextSAT ==
    \/ \E x \in SATSentences : SatTell(x)
    \/ \E x \in KBSentences : SatRetract(x)
    \/ \E q \in SATQueries : SatAsk(q)

SpecSAT == InitSAT /\ [][NextSAT]_vars

\* C8: ask(q) probes the stored clauses twice, q forced true and q forced
\* false, and answers true when only the first probe succeeds, false when
\* only the second does, unknown when both or neither do.
C8_DecisionTable ==
    asked.done =>
        /\ Len(asked.probes) = 2
        /\ \A i \in 1..2 : /\ asked.probes[i].clauses = clauses
                           /\ asked.probes[i].variable = asked.query
        /\ asked.probes[1].value = True
        /\ asked.probes[2].value = False
        /\ LET yes1 == asked.probes[1].success = True
               yes2 == asked.probes[2].success = True
           IN /\ yes1 /\ ~yes2 => asked.result = True
              /\ ~yes1 /\ yes2 => asked.result = False
              /\ yes1 /\ yes2 => asked.result = None
              /\ ~yes1 /\ ~yes2 => asked.result = None

C8_Witness ==
    /\ asked.done
    /\ asked.probes[1].success = False
    /\ asked.probes[2].success = False
    /\ asked.result = None

\* some total assignment makes every stored clause true
StoreSatisfiable(cl) ==
    \E m \in TotalModels(Expr("&", cl)) : \A i \in DOMAIN cl : pl_true(cl[i], m) = True

\* the answers of ask(q) are those of tt_entails over the same store
MatchesEnumeration ==
    /\ asked.result = True <=> Entails(clauses, asked.query)
    /\ asked.result = False <=> Entails(clauses, Not(asked.query))
    /\ asked.result = None <=> /\ ~Entails(clauses, asked.query)
                               /\ ~Entails(clauses, Not(asked.query))

\* C9 as stated: over every clause set, ask(q) is true exactly when the
\* clauses entail q, false exactly when they entail ~q, unknown otherwise.
C9_MatchesEnumerationAlways == asked.done => MatchesEnumeration

\* C9: over a satisfiable store ask(q) is true exactly when the clauses
\* entail q, false exactly when they entail ~q and unknown exactly when they
\* entail neither; over an unsatisfiable store ask(q) is unknown although
\* the clauses entail both q and ~q.
C9_MatchesEnumerationWhenSatisfiable ==
    asked.done =>
        IF StoreSatisfiable(clauses) THEN MatchesEnumeration
        ELSE /\ asked.result = None
             /\ Entails(clauses, asked.query)
             /\ Entails(clauses, Not(asked.query))

C9_Witness ==
    /\ asked.done
    /\ clauses = <<Or(Q, Not(P)), P>>
    /\ asked.query = Q
    /\ asked.result = True

\* the concatenation of the CNF conjuncts of the sentences
RECURSIVE ClausesOf(_)
ClausesOf(sentences) ==
    IF sentences = <<>> THEN <<>>
    ELSE conjuncts(to_cnf(Head(sentences))) \o ClausesOf(Tail(sentences))

----------------------------------------------------------------------------
(* One caller, either class of knowledge base behind it *)

SwapSentences == {P, Not(P), Implies(P, Q)}

SwapQueries == {P, Q}

InitSwap ==
    /\ clauses = <<>>
    /\ last = NoLast
    /\ track = NoTrack
    /\ asked = NoAsk
    /\ told = NoTold
    /\ backend \in {"PropKB", "PropKB_SAT"}
    /\ IdleCNF /\ IdleTT /\ IdleFun

NextSwap ==
    \/ backend = "PropKB" /\ \E x \in SwapSentences : Tell(x)
    \/ backend = "PropKB" /\ \E x \in SwapSentences : Retract(x)
    \/ backend = "PropKB" /\ \E q \in SwapQueries : Ask(q)
    \/ backend = "PropKB_SAT" /\ \E x \in SwapSentences : SatTell(x)
    \/ backend = "PropKB_SAT" /\ \E x \in SwapSentences : SatRetract(x)
    \/ backend = "PropKB_SAT" /\ \E q \in SwapQueries : SatAsk(q)

SpecSwap == InitSwap /\ [][NextSwap]_vars

\* C11 as stated: in either class ask returns the empty substitution when
\* the stored clauses entail the query and False otherwise.
C11_SameResultShape ==
    asked.done =>
        asked.result = IF Entails(asked.pre, asked.query) THEN EmptySubst ELSE False

\* C11: PropKB.ask returns the empty substitution when the stored clauses
\* entail the query and False otherwise; PropKB_SAT.ask never returns a
\* substitution but one of True, False and None, and over a satisfiable
\* store True exactly when the clauses entail the query, False exactly when
\* they entail its negation.
C11_ResultShapePerBackend ==
    asked.done =>
        IF backend = "PropKB"
        THEN asked.result =
                 IF Entails(asked.pre, asked.query) THEN EmptySubst ELSE False
        ELSE /\ asked.result \in {True, False, None}
             /\ StoreSatisfiable(asked.pre) =>
                   /\ asked.result = True <=> Entails(asked.pre, asked.query)
                   /\ asked.result = False <=> Entails(asked.pre, Not(asked.query))

C11_Witness ==
    /\ backend = "PropKB_SAT"
    /\ asked.done
    /\ asked.pre = <<Or(Q, Not(P)), P>>
    /\ asked.query = Q
    /\ asked.result = True

\* C20: in either class the stored clauses after ask(query) are those
\* before it, in the same order, whatever the answer.
C20_AskLeavesStore ==
    asked.done => clauses = asked.pre

C20_Witness ==
    /\ backend = "PropKB_SAT"
    /\ asked.done
    /\ asked.result = None
    /\ asked.pre = <<P, Not(P)>>
    /\ clauses = <<P, Not(P)>>

----------------------------------------------------------------------------
(* A PropKB_SAT whose solver may be out of reach *)

\* what a probe raises when the solver cannot be run or rejects the clauses
OracleFailure == "OracleFailure"

\* Minisat.solve with its failure: up says whether the solver answers
Minisat_solve_or_fail(c, variable, value, up) ==
    IF up THEN Minisat_solve(c, variable, value) ELSE OracleFailure

\* a failed probe taken for an unsatisfiable one
PropKB_SAT_ask_probing_unsat(cl, query, ups) ==
    LET probe(value, up) ==
            [clauses |-> cl, variable |-> query, value |-> value,
             success |-> IF up THEN Minisat_solve(cl, query, value) ELSE False]
        s_true == probe(True, ups[1])
        s_false == probe(False, ups[2])
    IN [result |-> IF s_true.success = s_false.success THEN None
                   ELSE s_true.success,
        probes |-> <<s_true, s_false>>, clauses |-> cl]

\* PropKB_SAT.ask when probe i is answered only if ups[i]: neither minisat
\* nor ask handles an exception, so the first failed probe ends the call
PropKB_SAT_ask_probing(cl, query, ups) ==
    LET first == Minisat_solve_or_fail(cl, query, True, ups[1])
        second == Minisat_solve_or_fail(cl, query, False, ups[2])
        s_true == minisat(cl, PyNone, query, True)
    IN IF first = OracleFailure
       THEN [result |-> OracleFailure, probes |-> <<>>, clauses |-> cl]
       ELSE IF second = OracleFailure
       THEN [result |-> OracleFailure, probes |-> <<s_true>>, clauses |-> cl]
       ELSE PropKB_SAT_ask(cl, query)

Ups == {<<TRUE, TRUE>>, <<TRUE, FALSE>>, <<FALSE, TRUE>>, <<FALSE, FALSE>>}

SatAskProbing(q, ups) ==
    /\ \E r \in {PropKB_SAT_ask_probing(clauses, q, ups)} :
        /\ asked' = [done |-> TRUE, query |-> q, result |-> r.result,
                     probes |-> r.probes, pre |-> clauses, ups |-> ups]
        /\ clauses' = r.clauses
    /\ UNCHANGED <<again, assoc, backend, ret, route, agent>>
    /\ UNCHANGED <<s, cnf, vals, kb, alpha, entailed, last, track, told>>

NextProbe ==
    \/ \E x \in SwapSentences : SatTell(x)
    \/ \E x \in SwapSentences : SatRetract(x)
    \/ \E q \in SwapQueries, ups \in Ups : SatAskProbing(q, ups)

SpecProbe == InitSAT /\ [][NextProbe]_vars

----------------------------------------------------------------------------
(* eliminate_implications applied to a sentence *)

\* exclusive-ors of three operands, bare and under a negation
WideXors ==
    {Expr("^", args) : args \in [1..3 -> Atoms]}
        \cup {Not(Expr("^", args)) : args \in [1..3 -> Atoms]}

InitElim ==
    /\ s \in SentencesUpTo(MaxOps) \cup WideXors
    /\ cnf = NoExpr /\ vals = NoVals
    /\ IdleTT /\ IdleKB /\ IdleFun

Eliminate ==
    /\ ret = NoRet
    /\ ret' = eliminate_implications(s)
    /\ UNCHANGED <<again, assoc, backend, route, agent>>
    /\ UNCHANGED <<s, cnf, vals, kb, alpha, entailed, clauses, last, track, asked, told>>

NextElim == Eliminate

SpecElim == InitElim /\ [][NextElim]_vars

\* C22: eliminate_implications leaves an atom as it is; it raises
\* AssertionError when the sentence holds an exclusive-or of more than two
\* operands; otherwise the result is built from ~, & and | only, and with p
\* and q the results for the two operands, p ==> q gives q | ~p, p <== q
\* gives p | ~q, p <=> q gives (p | ~q) & (q | ~p), and p ^ q gives
\* (p & ~q) | (~p & q).
C22_EliminateImplications ==
    ret # NoRet =>
        /\ IsAtom(s) => ret = s
        /\ s \in WideXors => ret = Raise(AssertionError)
        /\ s \notin WideXors =>
            /\ OnlyNotAndOr(ret)
            /\ Len(s.args) = 2 =>
                LET p == eliminate_implications(s.args[1])
                    q == eliminate_implications(s.args[2])
                IN /\ s.op = "==>" => ret = Or(q, Not(p))
                   /\ s.op = "<==" => ret = Or(p, Not(q))
                   /\ s.op = "<=>" => ret = And(Or(p, Not(q)), Or(q, Not(p)))
                   /\ s.op = "^" => ret = Or(And(p, Not(q)), And(Not(p), q))

C22_Witness ==
    /\ s = Implies(P, Xor(P, Q))
    /\ ret = Or(Or(And(P, Not(Q)), And(Not(P), Q)), Not(P))

----------------------------------------------------------------------------
(* distribute_and_over_or applied to a disjunction or conjunction *)

\* a disjunction of disjunctions, a conjunction of conjunctions: one level
\* of nesting that associate flattens away
NestedExprs ==
    {Expr(op, <<Expr(op, args)>>) :
        op \in {"|", "&"}, args \in ArgLists(Literals \cup {And(P, Q), Or(P, Q)}, 1)}

InitDist ==
    /\ s \in NaryExprs \cup NestedExprs
    /\ cnf = NoExpr /\ vals = NoVals
    /\ IdleTT /\ IdleKB /\ IdleFun

Distribute ==
    /\ ret = NoRet
    /\ ret' = distribute_and_over_or(s)
    /\ UNCHANGED <<again, assoc, backend, route, agent>>
    /\ UNCHANGED <<s, cnf, vals, kb, alpha, entailed, clauses, last, track, asked, told>>

NextDist == Distribute

SpecDist == InitDist /\ [][NextDist]_vars

\* the arguments of s with the nested occurrences of its own operator
\* flattened away
Flattened == dissociate(s.op, s.args)

\* C23: distribute_and_over_or returns the constant False for a disjunction
\* with no flattened argument and the distributed form of the argument for
\* a disjunction or conjunction with exactly one flattened argument, and
\* raises in neither case.
C23_DegenerateCases ==
    ret # NoRet =>
        /\ (s.op = "|" /\ Len(Flattened) = 0) => ret = PyFalse
        /\ Len(Flattened) = 1 =>
            /\ ~IsErr(ret)
            /\ ret = distribute_and_over_or(Flattened[1])

\* the half of C23 the code keeps: exactly one flattened argument
C23_SingleArgument ==
    (ret # NoRet /\ Len(Flattened) = 1) =>
        /\ ~IsErr(ret)
        /\ ret = distribute_and_over_or(Flattened[1])

\* what the code does for a disjunction with no flattened argument
C23_EmptyDisjunctionRaises ==
    (ret # NoRet /\ s.op = "|" /\ Len(Flattened) = 0) =>
        ret = Raise(AttributeError)

----------------------------------------------------------------------------
(* Construction of a PropKB or PropKB_SAT, with or without a sentence *)

\* the object under construction: the attributes it has so far, the value
\* of clauses once it is one of them, and the exception that ended the call
NewObject == [attrs |-> {}, clauses |-> <<>>, raised |-> NoRet]

\* self.tell(sentence) as the class of self defines it; PropKB.tell reads
\* self.clauses before it evaluates the argument of extend
Method_tell(self, cls, sentence) ==
    IF cls = "PropKB_SAT" /\ IsFalsy(sentence) THEN self
    ELSE IF "clauses" \notin self.attrs
         THEN [self EXCEPT !.raised = Raise(AttributeError)]
    ELSE [self EXCEPT !.clauses = PropKB_tell(@, sentence)]

KB_init(self, cls, sentence) ==
    IF IsFalsy(sentence) THEN self ELSE Method_tell(self, cls, sentence)

PropKB_init(self, cls, sentence) ==
    LET base == KB_init(self, cls, sentence) IN
    IF base.raised # NoRet THEN base
    ELSE [base EXCEPT !.attrs = @ \cup {"clauses"}, !.clauses = <<>>]

NewSentences == SwapSentences \cup {PyNone}

InitNew ==
    /\ clauses = <<>>
    /\ last = NoLast
    /\ track = NoTrack
    /\ asked = NoAsk
    /\ told = NoTold
    /\ backend \in {"PropKB", "PropKB_SAT"}
    /\ IdleCNF /\ IdleTT /\ IdleFun

\* kb = PropKB(x) or kb = PropKB_SAT(x); ret is None when the constructor
\* returns and the exception when it raises
New(x) ==
    /\ ret = NoRet
    /\ \E self \in {PropKB_init(NewObject, backend, x)} :
        /\ ret' = IF self.raised = NoRet THEN PyNone ELSE self.raised
        /\ clauses' = self.clauses
    /\ last' = [op |-> "new", arg |-> x, pre |-> <<>>]
    /\ UNCHANGED <<again, assoc, backend, route, agent>>
    /\ UNCHANGED <<s, cnf, vals, kb, alpha, entailed, track, asked, told>>

NextNew ==
    \/ \E x \in NewSentences : New(x)
    \/ ret = PyNone /\ backend = "PropKB" /\ \E x \in SwapSentences : Tell(x)
    \/ ret = PyNone /\ backend = "PropKB" /\ \E x \in SwapSentences : Retract(x)
    \/ ret = PyNone /\ backend = "PropKB" /\ \E q \in SwapQueries : Ask(q)
    \/ ret = PyNone /\ backend = "PropKB_SAT" /\ \E x \in SwapSentences : SatTell(x)
    \/ ret = PyNone /\ backend = "PropKB_SAT" /\ \E x \in SwapSentences : SatRetract(x)
    \/ ret = PyNone /\ backend = "PropKB_SAT" /\ \E q \in SwapQueries : SatAsk(q)

SpecNew == InitNew /\ [][NextNew]_vars

\* C24: the construction of a PropKB or PropKB_SAT with a sentence returns,
\* and the new knowledge base holds the conjuncts of the sentence's CNF, as
\* an empty knowledge base does after tell of the sentence.
C24_ConstructWithSentence ==
    (last.op = "new" /\ ~IsFalsy(last.arg)) =>
        /\ ret = PyNone
        /\ clauses = PropKB_tell(<<>>, last.arg)

\* what the code does: the construction with a sentence raises
\* AttributeError, the construction without one returns
C24_ConstructRaises ==
    last.op = "new" =>
        IF IsFalsy(last.arg) THEN ret = PyNone
        ELSE ret = Raise(AttributeError) /\ clauses = <<>>

----------------------------------------------------------------------------
(* The assertion of tt_check_all *)

\* C25: the assertion of tt_check_all never fails for a kb and a ground
\* alpha built from proposition symbols and the defined operators: every
\* model at a leaf of the enumeration binds every symbol of alpha, so
\* where kb is true pl_true(alpha, model) is true or false.
C25_AssertionHolds ==
    entailed # None =>
        /\ entailed # AssertionError
        /\ \A m \in TotalModels(And(kb, alpha)) :
            /\ prop_symbols(alpha) \subseteq DOMAIN m
            /\ pl_true(kb, m) = True => pl_true(alpha, m) \in {True, False}

\* alpha over a symbol kb does not have, evaluated where kb is true
C25_Witness ==
    /\ kb = P
    /\ alpha = Not(Q)
    /\ entailed = False

----------------------------------------------------------------------------
(* wumpus_planners.py: plan_route over PlanRouteProblem *)

\* the methods of PlanRouteProblem as the file has them
PlanRouteProblem(initial, goals, allowed) ==
    [initial |-> initial, goals |-> goals, allowed |-> allowed]

PlanRouteProblem_h(self, node) == 0

PlanRouteProblem_actions(self, state) == <<>>

PlanRouteProblem_result(self, state, action) == None

PlanRouteProblem_goal_test(self, state) == None

\* the index of a node of least path cost plus h, the first of them
Cheapest(problem, frontier) ==
    LET f(i) == Len(frontier[i].path) + PlanRouteProblem_h(problem, frontier[i]) IN
    CHOOSE i \in DOMAIN frontier :
        /\ \A j \in DOMAIN frontier : f(i) <= f(j)
        /\ \A j \in 1..(i - 1) : f(j) > f(i)

\* search.astar_search: best-first graph search on path cost plus h, through
\* the problem's actions, result and goal_test; a node or None
RECURSIVE best_first_graph_search(_, _, _)
best_first_graph_search(problem, frontier, explored) ==
    IF frontier = <<>> THEN None
    ELSE LET k == Cheapest(problem, frontier)
             node == frontier[k]
             rest == SubSeq(frontier, 1, k - 1) \o SubSeq(frontier, k + 1, Len(frontier))
             acts == PlanRouteProblem_actions(problem, node.state)
             children == [i \in DOMAIN acts |->
                             [state |-> PlanRouteProblem_result(problem, node.state, acts[i]),
                              path |-> Append(node.path, acts[i])]]
             fresh == SelectSeq(children,
                          LAMBDA c : /\ c.state \notin explored \cup {node.state}
                                     /\ \A j \in DOMAIN rest : rest[j].state # c.state)
         IN IF PlanRouteProblem_goal_test(problem, node.state) = True THEN node
            ELSE best_first_graph_search(problem, rest \o fresh,
                                         explored \cup {node.state})

astar_search(problem) ==
    best_first_graph_search(problem, <<[state |-> problem.initial, path |-> <<>>]>>, {})

\* "if goals and allowed": an empty tuple is falsy
plan_route(current, heading, goals, allowed) ==
    IF goals # <<>> /\ allowed # <<>>
    THEN LET prp == PlanRouteProblem(<<current[1], current[2], heading>>, goals, allowed)
             node == astar_search(prp)
         IN IF node # None THEN node.path ELSE <<>>
    ELSE <<>>

----------------------------------------------------------------------------
(* plan_route called on the layout of wumpus_planners_test.py *)

TestAllowed ==
    << <<0, 0>>, <<0, 1>>, <<0, 2>>, <<0, 3>>,
       <<1, 0>>, <<1, 1>>, <<1, 2>>, <<1, 3>>,
       <<2, 0>>,                     <<2, 3>>,
       <<3, 0>>, <<3, 1>>, <<3, 2>>, <<3, 3>> >>

TestGoals == << <<2, 3>>, <<3, 2>> >>

InitRoute ==
    /\ route \in {[done |-> FALSE, current |-> c, heading |-> h, goals |-> g,
                   allowed |-> a, plan |-> <<>>] :
                     c \in Range(TestAllowed), h \in 0..3,
                     g \in {TestGoals, << <<0, 0>> >>, <<>>},
                     a \in {TestAllowed, <<>>}}
    /\ ret = NoRet /\ agent = NoAgent
    /\ again = NoExpr /\ assoc = NoAssoc
    /\ IdleCNF /\ IdleTT /\ IdleKB

PlanRoute ==
    /\ ~route.done
    /\ route' = [route EXCEPT
                    !.done = TRUE,
                    !.plan = plan_route(route.current, route.heading,
                                        route.goals, route.allowed)]
    /\ UNCHANGED <<again, assoc, backend, ret, agent>>
    /\ UNCHANGED <<s, cnf, vals, kb, alpha, entailed, clauses, last, track, asked, told>>

NextRoute == PlanRoute

SpecRoute == InitRoute /\ [][NextRoute]_vars

\* headings: 0 north, 1 west, 2 south, 3 east; the state an action leads to
Moved(state, action) ==
    LET x == state[1]
        y == state[2]
        h == state[3]
    IN IF action = "TurnLeft" THEN <<x, y, (h + 1) % 4>>
       ELSE IF action = "TurnRight" THEN <<x, y, (h + 3) % 4>>
       ELSE IF h = 0 THEN <<x, y + 1, h>>
       ELSE IF h = 1 THEN <<x - 1, y, h>>
       ELSE IF h = 2 THEN <<x, y - 1, h>>
       ELSE <<x + 1, y, h>>

Moves == {"Forward", "TurnLeft", "TurnRight"}

OnAllowed(state, allowed) == <<state[1], state[2]>> \in Range(allowed)

\* the states one move away that stay on allowed locations
Neighbours(state, allowed) ==
    {n \in {Moved(state, a) : a \in Moves} : OnAllowed(n, allowed)}

\* the least number of moves from the states of the frontier to a goal
\* location, counted from d, or -1 when none can be reached
RECURSIVE Distance(_, _, _, _, _)
Distance(frontier, seen, goals, allowed, d) ==
    IF \E n \in frontier : OnAllowed(n, goals) THEN d
    ELSE IF frontier = {} THEN -1
    ELSE LET next == UNION {Neighbours(n, allowed) : n \in frontier} \ seen
         IN Distance(next, seen \cup next, goals, allowed, d + 1)

RouteDistance ==
    LET start == <<route.current[1], route.current[2], route.heading>> IN
    Distance({start}, {start}, route.goals, route.allowed, 0)

\* the states met when the plan is carried out from state
RECURSIVE Trace(_, _)
Trace(state, plan) ==
    IF plan = <<>> THEN <<state>>
    ELSE <<state>> \o Trace(Moved(state, Head(plan)), Tail(plan))

\* C21 as stated: when a goal location can be reached over allowed
\* locations, the plan plan_route returns has the least possible length,
\* stays on allowed locations and ends on a goal location.
C21_RouteIsShortest ==
    route.done /\ RouteDistance >= 0 =>
        LET start == <<route.current[1], route.current[2], route.heading>>
            trace == Trace(start, route.plan)
        IN /\ Len(route.plan) = RouteDistance
           /\ \A i \in DOMAIN trace : OnAllowed(trace[i], route.allowed)
           /\ OnAllowed(trace[Len(trace)], route.goals)

----------------------------------------------------------------------------
(* wumpus_agent.py: HybridWumpusAgent.agent_program *)

MaxTime == 4

\* wumpus_kb.action_grab_str(None), wumpus_kb.action_climb_str(None)
action_grab_str == "Grab"
action_climb_str == "Climb"

\* wumpus_kb.add_time_stamp(prop, time): the proposition at the time
add_time_stamp(prop, time) == [prop |-> prop, time |-> time]

\* "if x:" for an answer of kb.ask
Truthy(answer) == answer = True

\* the last assignment to self.plan without its + [Climb]
agent_program_bare_route(self, glitter, have_arrow, home, visit, shot, risk, leave) ==
    LET p1 == IF Truthy(glitter)
              THEN <<action_grab_str>> \o home \o <<action_climb_str>>
              ELSE self.plan
        p2 == IF p1 = <<>> THEN visit ELSE p1
        p3 == IF p2 = <<>> /\ Truthy(have_arrow) THEN shot ELSE p2
        p4 == IF p3 = <<>> THEN risk ELSE p3
        p5 == IF p4 = <<>> THEN leave ELSE p4
        asked_arrow == IF p2 = <<>> THEN have_arrow ELSE "not asked"
    IN IF p5 = <<>>
       THEN [self EXCEPT !.calls = @ + 1, !.start = self.time, !.plan = p5,
                         !.at_pop = p5, !.glitter = glitter,
                         !.have_arrow = asked_arrow, !.raised = IndexError]
       ELSE [calls |-> self.calls + 1,
             time |-> self.time + 1,
             start |-> self.time,
             plan |-> Tail(p5),
             at_pop |-> p5,
             action |-> Head(p5),
             told |-> add_time_stamp(Head(p5), self.time),
             glitter |-> glitter,
             have_arrow |-> asked_arrow,
             raised |-> "none"]

\* one call of agent_program. glitter and have_arrow are the answers of
\* kb.ask; home, visit, risk and leave are what the four calls of
\* plan_route return and shot is what plan_shot returns, each read only
\* where the code makes the call. p1..p5 are self.plan after each of the
\* five steps that may assign it; have_arrow is asked only with no plan
\* after the second step.
agent_program(self, glitter, have_arrow, home, visit, shot, risk, leave) ==
    LET p1 == IF Truthy(glitter)
              THEN <<action_grab_str>> \o home \o <<action_climb_str>>
              ELSE self.plan
        p2 == IF p1 = <<>> THEN visit ELSE p1
        p3 == IF p2 = <<>> /\ Truthy(have_arrow) THEN shot ELSE p2
        p4 == IF p3 = <<>> THEN risk ELSE p3
        p5 == IF p4 = <<>> THEN leave \o <<action_climb_str>> ELSE p4
        asked_arrow == IF p2 = <<>> THEN have_arrow ELSE "not asked"
    IN IF p5 = <<>>
       THEN [self EXCEPT !.calls = @ + 1, !.start = self.time, !.plan = p5,
                         !.at_pop = p5, !.glitter = glitter,
                         !.have_arrow = asked_arrow, !.raised = IndexError]
       ELSE [calls |-> self.calls + 1,
             time |-> self.time + 1,
             start |-> self.time,
             plan |-> Tail(p5),
             at_pop |-> p5,
             action |-> Head(p5),
             told |-> add_time_stamp(Head(p5), self.time),
             glitter |-> glitter,
             have_arrow |-> asked_arrow,
             raised |-> "none"]

\* what kb.ask may answer
Answers == {True, False, None}

\* what plan_route may return: no route, as the file's PlanRouteProblem has
\* it, or a route
Routes == {<<>>, <<"Forward">>, <<"TurnLeft", "Forward">>}

\* what plan_shot may return
Shots == {<<>>, <<"Shoot", "Wait">>, <<"TurnRight", "Shoot", "Wait">>}

InitAgent ==
    /\ agent = NoAgent
    /\ ret = NoRet /\ route = NoRoute
    /\ again = NoExpr /\ assoc = NoAssoc
    /\ IdleCNF /\ IdleTT /\ IdleKB

AgentProgram ==
    /\ agent.time < MaxTime
    /\ agent.raised = "none"
    /\ \E glitter \in Answers, have_arrow \in Answers :
       \E home \in Routes, visit \in Routes, risk \in Routes, leave \in Routes :
       \E shot \in Shots :
           agent' = agent_program(agent, glitter, have_arrow,
                                  home, visit, shot, risk, leave)
    /\ UNCHANGED <<again, assoc, backend, ret, route>>
    /\ UNCHANGED <<s, cnf, vals, kb, alpha, entailed, clauses, last, track, asked, told>>

NextAgent == AgentProgram

SpecAgent == InitAgent /\ [][NextAgent]_vars

\* C27: every call of agent_program returns an action, whatever kb.ask
\* answers and whatever plan_route and plan_shot return, the empty list
\* included: the plan is not empty when its first element is popped, the
\* popped action is told to the knowledge base stamped with the time at
\* the start of the call, and the time is then greater by exactly 1.
C27_AlwaysAnAction ==
    agent.calls > 0 =>
        /\ agent.raised = "none"
        /\ agent.at_pop # <<>>
        /\ agent.action = Head(agent.at_pop)
        /\ agent.plan = Tail(agent.at_pop)
        /\ agent.told = add_time_stamp(agent.action, agent.start)
        /\ agent.time = agent.start + 1

\* the first call, nothing found by any planner: the agent climbs out
C27_Witness ==
    /\ agent.calls = 1
    /\ agent.glitter = None
    /\ agent.have_arrow = None
    /\ agent.at_pop = <<action_climb_str>>
    /\ agent.action = action_climb_str
    /\ agent.told = add_time_stamp(action_climb_str, 0)
    /\ agent.time = 1

====
